---- MODULE Spec2Model ----
(***************************************************************************)
(* Model of reporting/oci_carbon_emissions.py: the paginated retrieval     *)
(* loop (get_full_dataset_paginated), the multi-query fallback loop of     *)
(* main, the groupBy validator (validate_group_by_fields), the date        *)
(* normaliser (_parse_and_validate_datetime), the period resolver          *)
(* (calculate_first_day_date_range), the argument handling and dispatch    *)
(* of main, the limit of get_carbon_emissions, print_summary, the header   *)
(* of save_to_csv, and the dates of a run from main's check to the first   *)
(* request.  Each component has its own specification; the variables of    *)
(* the other components stay idle.                                         *)
(*                                                                         *)
(* Python's None is the string "None"; an Optional[int] is a set holding   *)
(* at most one integer ({} is None); a list is a sequence.                 *)
(***************************************************************************)
EXTENDS Integers, Sequences, FiniteSets, TLC

VARIABLES
    \* ---- get_full_dataset_paginated ----
    pc_pag,         \* "loop" | "returned" | "raised"
    max_records,    \* the max_records argument: {} (None) or {n}
    all_items,      \* the accumulator list
    page_token,     \* last opc_next_page read: "None" | "tok"
    page_count,     \* loop counter
    total_records,  \* running record count
    result,         \* the CombinedResult returned, or NoResult
    raised,         \* the exception leaving the call, or "None"
    stop_reason,    \* which message the loop printed when it stopped
    delivered,      \* history: records the client handed out, in arrival order
    requests,       \* history: number of calls made to the client
    sent_page,      \* history: page token the latest request carried
    preceding_page, \* history: opc_next_page of the page before that request
    \* ---- multi-query mode of main ----
    pc_mq,          \* "primary" | "alternate" | "collect" | "next" | "combine"
                    \* | "done" (combined dataset built) | "exit" (early return)
    spend_lists,    \* args.full_dataset_spend_based
    has_output,     \* args.output is set
    idx,            \* 1-based position in query_combinations
    data,           \* the local `data`: [kind |-> "None"] or a response
    all_data,       \* the combined list
    combo_reqs,     \* history: requests issued for the current combination
    primary_out,    \* history: outcome of the current combination's primary
    surfaced,       \* history: error the outer handler printed for the combination
    contributed,    \* history: records the combination added to all_data
    attempted,      \* history: combinations whose primary was issued, in order
    resolved,       \* history: records the fallback steps resolved to, flattened
    served,         \* history: number of records the API has served so far
    \* ---- validate_group_by_fields ----
    pc_val,         \* "call" | "returned"
    group_by,       \* the group_by argument
    calculation_method,
    valid_fields,   \* the returned list, or <<>> before the call
    val_warnings,   \* the warnings printed by the call, in order
    \* ---- _parse_and_validate_datetime ----
    pc_date,        \* "call" | "once" | "twice" | "raised"
    date_str,       \* the date_str argument, as its parsed text
    strftime_pads,  \* whether the platform's strftime zero-pads %Y
    norm1,          \* the string returned for date_str, or the ValueError
    norm2,          \* the string returned for norm1, or the ValueError
    \* ---- calculate_first_day_date_range ----
    pc_per,         \* "call" | "returned"
    today,          \* datetime.now()
    period_type,    \* "last_month" | "last_3_months"
    date_range,      \* the (start, end) pair returned, or "None"
    \* ---- main: argument handling and dispatch ----
    pc_cli,         \* "parsed" | "prepared" | "dispatched"
    argv,           \* history: the namespace as argparse returned it
    args,           \* the args namespace, as main rewrites it
    sent_group_by,   \* history: group_by of each request main asks for, in order
    retrieval,       \* history: the branch of main that fetched the data
    \* ---- get_carbon_emissions: the limit parameter ----
    pc_gce,         \* "call" | "sent"
    limit_arg,      \* the limit argument: {} (None) or {n}
    sent_limit,      \* the limit handed to the client: {} (None) or {n}
    \* ---- print_summary ----
    pc_sum,         \* "call" | "printed" | "empty"
    sum_items,      \* data.items
    group_by_compartments,
    summary,         \* what was printed: total and the two breakdowns, or "None"
    \* ---- save_to_csv ----
    pc_csv,         \* "call" | "saved" | "nothing" | "raised"
    csv_items,      \* data.items: per record, the optional fields that have data
    fieldnames,     \* the header written, or <<>>
    rows_written,    \* number of rows written after the header
    pc_run,                \* main / get_carbon_emissions: position of the run
    entry,                 \* "main" or a direct call of get_carbon_emissions
    list_compartments,     \* args.list_compartments
    libc_pads,             \* whether strftime pads a year below 1000
    start_date,            \* args.start_date, or the start_date parameter
    end_date,              \* args.end_date, or the end_date parameter
    start_date_str,        \* main: start date after its first-of-month step
    end_date_str,          \* main: end date after its first-of-month step
    retriever,             \* whether OCICarbonEmissionsRetriever was created
    client_calls,          \* requests issued to the emissions API client
    time_range             \* time_usage_started / time_usage_ended sent

pagVars == <<pc_pag, max_records, all_items, page_token, page_count, total_records,
             result, raised, stop_reason, delivered, requests, sent_page,
             preceding_page>>
mqVars  == <<pc_mq, spend_lists, has_output, idx, data, all_data, combo_reqs,
             primary_out, surfaced, contributed, attempted, resolved, served>>
valVars == <<pc_val, group_by, calculation_method, valid_fields, val_warnings>>
dateVars == <<pc_date, date_str, strftime_pads, norm1, norm2>>
perVars == <<pc_per, today, period_type, date_range>>
cliVars == <<pc_cli, argv, args, sent_group_by, retrieval>>
gceVars == <<pc_gce, limit_arg, sent_limit>>
sumVars == <<pc_sum, sum_items, group_by_compartments, summary>>
csvVars == <<pc_csv, csv_items, fieldnames, rows_written>>
runVars == <<pc_run, entry, list_compartments, libc_pads, start_date, end_date,
            start_date_str, end_date_str, retriever, client_calls, time_range>>
vars    == <<pagVars, mqVars, valVars, dateVars, perVars, cliVars, gceVars,
             sumVars, csvVars, runVars>>

\* What the actions of one component leave alone.
notPag  == <<mqVars, valVars, dateVars, perVars, cliVars, gceVars, sumVars,
             csvVars, runVars>>
notMQ   == <<pagVars, valVars, dateVars, perVars, cliVars, gceVars, sumVars,
             csvVars, runVars>>
notVal  == <<pagVars, mqVars, dateVars, perVars, cliVars, gceVars, sumVars,
             csvVars, runVars>>
notDate == <<pagVars, mqVars, valVars, perVars, cliVars, gceVars, sumVars,
             csvVars, runVars>>
notPer  == <<pagVars, mqVars, valVars, dateVars, cliVars, gceVars, sumVars,
             csvVars, runVars>>
notCli  == <<pagVars, mqVars, valVars, dateVars, perVars, gceVars, sumVars,
             csvVars, runVars>>
notGce  == <<pagVars, mqVars, valVars, dateVars, perVars, cliVars, sumVars,
             csvVars, runVars>>
notSum  == <<pagVars, mqVars, valVars, dateVars, perVars, cliVars, gceVars,
             csvVars, runVars>>
notCsv  == <<pagVars, mqVars, valVars, dateVars, perVars, cliVars, gceVars,
             sumVars, runVars>>
notRun  == <<pagVars, mqVars, valVars, dateVars, perVars, cliVars, gceVars,
             sumVars, csvVars>>

\* ---------------------------------------------------------------- bounds
\* Records the client stub hands out during one paginated retrieval.
MaxTotal == 3
\* Records on one page of the client stub.
MaxPageLen == 2
\* Largest max_records argument tried.
MaxN == 3
\* Records the API stub serves during one multi-query run.
MaxServed == 3
\* Records in one response of the API stub in multi-query mode.
MaxItems == 2
\* Longest group_by list handed to validate_group_by_fields.
MaxFields == 5

\* EmissionRecord values the pagination stub can return (opaque to the loop).
Records == {"a", "b"}

Min(a, b) == IF a < b THEN a ELSE b

\* All sequences over S of length 0..n.
SeqsUpTo(S, n) == UNION {[1..k -> S] : k \in 0..n}

\* ------------------------------------------- get_full_dataset_paginated
\* The page ceiling of the loop.
MaxPageCount == 1000

HasItems_mut(items) == Len(items) > 1

\* `if data.items:` -- an empty (or None) item list is falsy.
HasItems(items) == items # <<>>

\* `max_records and total_records >= max_records` (None and 0 are falsy).
ReachedMax(mr, total) == \E n \in mr : n # 0 /\ total >= n

Truncate_mut(items, mr) == items

\* `all_items[:max_records]`
Truncate(items, mr) ==
    LET n == CHOOSE k \in mr : TRUE IN SubSeq(items, 1, Min(n, Len(items)))

\* `if not page_token`
NoMorePages(token) == token = "None"

PageLimitReached_mut(count) == count > MaxPageCount

\* `if page_count >= 1000`
PageLimitReached(count) == count >= MaxPageCount

\* No value returned (yet): a record, so that it can be compared with a
\* CombinedResult.
NoResult == [kind |-> "None"]

\* CombinedResult(items): items plus two None metadata fields.
CombinedResult(items) ==
    [items |-> items, opc_request_id |-> "None", opc_next_page |-> "None"]

\* The except handler.  The class CombinedResult is bound by a class statement
\* placed after the loop, so it is a local name that is still unbound when the
\* client raises inside the loop: evaluating CombinedResult(all_items) in the
\* handler raises UnboundLocalError.  With an empty accumulator the bare
\* `raise` re-raises the client's error.
HandlerOutcome(items) ==
    IF items # <<>>
    THEN [result |-> NoResult, raised |-> "UnboundLocalError"]
    ELSE [result |-> NoResult, raised |-> "ApiError"]

\* What usage_client.request_usage_carbon_emissions can answer when the stub
\* still has `room` records to give: a page (items, opc_next_page).
ClientPages(room) ==
    {[items |-> s, opc_next_page |-> t] :
        s \in SeqsUpTo(Records, Min(MaxPageLen, room)), t \in {"None", "tok"}}

\* The page token a request of the loop carries: get_carbon_emissions is
\* called with the same arguments in every iteration (lines 523-533), it has
\* no page parameter, and its client call (lines 128-131) passes
\* request_usage_carbon_emissions_details and limit only.
PageArgument(token) == "None"

InitPag ==
    /\ pc_pag = "loop"
    /\ max_records \in {{}} \cup {{n} : n \in 0..MaxN}
    /\ all_items = <<>>
    /\ page_token = "None"
    /\ page_count = 0
    /\ total_records = 0
    /\ result = NoResult
    /\ raised = "None"
    /\ stop_reason = "None"
    /\ delivered = <<>>
    /\ requests = 0
    /\ sent_page = "None"
    /\ preceding_page = "None"

IdlePag ==
    /\ pc_pag = "idle"
    /\ max_records = {}
    /\ all_items = <<>>
    /\ page_token = "None"
    /\ page_count = 0
    /\ total_records = 0
    /\ result = NoResult
    /\ raised = "None"
    /\ stop_reason = "None"
    /\ delivered = <<>>
    /\ requests = 0
    /\ sent_page = "None"
    /\ preceding_page = "None"

\* One iteration of `while True` in which get_carbon_emissions returns a page.
FetchPage ==
    /\ pc_pag = "loop"
    /\ \E page \in ClientPages(MaxTotal - Len(delivered)) :
        LET grown  == IF HasItems(page.items) THEN all_items \o page.items ELSE all_items
            total  == IF HasItems(page.items) THEN total_records + Len(page.items)
                                              ELSE total_records
            hitMax == HasItems(page.items) /\ ReachedMax(max_records, total)
            noMore == NoMorePages(page.opc_next_page)
            limit  == PageLimitReached(page_count + 1)
            final  == IF hitMax THEN Truncate(grown, max_records) ELSE grown
            stop   == hitMax \/ noMore \/ limit
        IN  /\ page_count' = page_count + 1
            /\ requests' = requests + 1
            /\ sent_page' = PageArgument(page_token)
            /\ preceding_page' = page_token
            /\ delivered' = delivered \o page.items
            /\ total_records' = total
            /\ all_items' = final
            /\ page_token' = IF hitMax THEN page_token ELSE page.opc_next_page
            /\ stop_reason' = IF hitMax THEN "max_records"
                              ELSE IF noMore THEN "no_more_pages"
                              ELSE IF limit THEN "page_limit" ELSE "None"
            /\ pc_pag' = IF stop THEN "returned" ELSE "loop"
            /\ result' = IF stop THEN CombinedResult(final) ELSE NoResult
            /\ UNCHANGED <<max_records, raised>>
    /\ UNCHANGED notPag

\* One iteration of `while True` in which get_carbon_emissions raises: control
\* goes to the except handler of the function.
FetchError ==
    /\ pc_pag = "loop"
    /\ LET out == HandlerOutcome(all_items)
       IN  /\ page_count' = page_count + 1
           /\ requests' = requests + 1
           /\ sent_page' = PageArgument(page_token)
           /\ preceding_page' = page_token
           /\ stop_reason' = "error"
           /\ result' = out.result
           /\ raised' = out.raised
           /\ pc_pag' = IF out.raised = "None" THEN "returned" ELSE "raised"
           /\ UNCHANGED <<max_records, all_items, page_token, total_records, delivered>>
    /\ UNCHANGED notPag

\* A KeyboardInterrupt is a BaseException: `except Exception` (line 570) does
\* not match it, whatever has been accumulated, so it leaves the function; the
\* handler of main prints "Operation cancelled by user." and exits with 1.
InterruptOutcome(items) == [result |-> NoResult, raised |-> "KeyboardInterrupt"]

\* The user interrupts the process while the loop is running.
Interrupt ==
    /\ pc_pag = "loop"
    /\ LET out == InterruptOutcome(all_items)
       IN  /\ stop_reason' = "interrupt"
           /\ result' = out.result
           /\ raised' = out.raised
           /\ pc_pag' = "raised"
           /\ UNCHANGED <<max_records, all_items, page_token, page_count,
                          total_records, delivered, requests, sent_page,
                          preceding_page>>
    /\ UNCHANGED notPag

NextPag == FetchPage \/ FetchError \/ Interrupt

\* ------------------------------------------------ multi-query mode (main)
\* query_combinations: (group_by_fields, suffix) pairs, by args.full_dataset_spend_based.
query_combinations(spend) ==
    IF spend
    THEN << [group_by |-> <<"service", "compartmentName", "resourceId", "skuName">>,
             suffix |-> "spend_based_service_compartment_resource_sku"],
            [group_by |-> <<"service", "compartmentName", "platform", "region">>,
             suffix |-> "spend_based_service_compartment_platform_region"],
            [group_by |-> <<"compartmentName", "resourceId", "skuName", "region">>,
             suffix |-> "spend_based_compartment_resource_sku_region"],
            [group_by |-> <<"service", "skuName", "platform">>,
             suffix |-> "spend_based_service_sku_platform"] >>
    ELSE << [group_by |-> <<"service", "compartmentName", "region">>,
             suffix |-> "power_based_service_compartment_region"],
            [group_by |-> <<"service", "compartmentName", "tenantId">>,
             suffix |-> "power_based_service_compartment_tenant"],
            [group_by |-> <<"service", "region", "subscriptionId">>,
             suffix |-> "power_based_service_region_subscription"],
            [group_by |-> <<"service", "compartmentName">>,
             suffix |-> "power_based_service_compartment"] >>

\* A record of a multi-query response is its computed_carbon_emission; the
\* loop reads nothing else of it.  (An absent value reads as 0: `x or 0`.)
Emissions == {-1, 0, 1}

NoneData == [kind |-> "None"]

Response(items) == [kind |-> "resp", items |-> items]

\* What get_carbon_emissions can do on one call: raise, or return a response.
ApiOutcomes(room) ==
    {[kind |-> "raise"]} \cup {Response(s) : s \in SeqsUpTo(Emissions, Min(MaxItems, room))}

\* The request of the first try block.
PrimaryRequest(fields) ==
    [emission_type |-> "LOCATION_BASED", calculation_method |-> "POWER_BASED",
     group_by |-> fields, compartment_depth |-> 7]

\* The request of the second try block.
AlternateRequest(fields) ==
    [emission_type |-> "MARKET_BASED", calculation_method |-> "SPEND_BASED",
     group_by |-> fields, compartment_depth |-> 7]

PrimaryFound_mut(items) == items # <<>>

\* `data.items and any(float(item.computed_carbon_emission or 0) > 0 ...)`
PrimaryFound(items) == items # <<>> /\ \E i \in 1..Len(items) : items[i] > 0

\* `if not data or not data.items`
NeedAlternate(d) == d.kind = "None" \/ d.items = <<>>

CollectBranch_mut(d) ==
    IF d.kind = "None" \/ d.items = <<>> THEN "raise"
    ELSE "records"

\* The statement `if data.items:` after the two attempts: evaluating
\* data.items on None raises AttributeError, a non-empty list takes the
\* branch that saves and extends, an empty list the else branch.
CollectBranch(d) ==
    IF d.kind = "None" THEN "raise"
    ELSE IF d.items # <<>> THEN "records"
    ELSE "empty"

AfterCombination_mut(i, err) ==
    IF err # "None" THEN Len(query_combinations(FALSE)) + 1 ELSE i + 1

\* The for loop's next index: the handler's `continue` and the normal end of the
\* body both go on with the next combination.
AfterCombination(i, err) == i + 1

InitMQ ==
    /\ pc_mq = "primary"
    /\ spend_lists \in BOOLEAN
    /\ has_output \in BOOLEAN
    /\ idx = 1
    /\ data = NoneData
    /\ all_data = <<>>
    /\ combo_reqs = <<>>
    /\ primary_out = "None"
    /\ surfaced = "None"
    /\ contributed = <<>>
    /\ attempted = <<>>
    /\ resolved = <<>>
    /\ served = 0

IdleMQ ==
    /\ pc_mq = "idle"
    /\ spend_lists = FALSE
    /\ has_output = FALSE
    /\ idx = 0
    /\ data = NoneData
    /\ all_data = <<>>
    /\ combo_reqs = <<>>
    /\ primary_out = "None"
    /\ surfaced = "None"
    /\ contributed = <<>>
    /\ attempted = <<>>
    /\ resolved = <<>>
    /\ served = 0

CurrentCombination == query_combinations(spend_lists)[idx]

\* `data = None` and the first inner try: the POWER_BASED/LOCATION_BASED request.
Primary ==
    /\ pc_mq = "primary"
    /\ \E out \in ApiOutcomes(MaxServed - served) :
        LET d == IF out.kind = "resp" /\ PrimaryFound(out.items) THEN out ELSE NoneData
        IN  /\ data' = d
            /\ primary_out' = out
            /\ served' = served + (IF out.kind = "resp" THEN Len(out.items) ELSE 0)
            /\ pc_mq' = IF NeedAlternate(d) THEN "alternate" ELSE "collect"
    /\ combo_reqs' = <<PrimaryRequest(CurrentCombination.group_by)>>
    /\ attempted' = Append(attempted, CurrentCombination.suffix)
    /\ surfaced' = "None"
    /\ contributed' = <<>>
    /\ UNCHANGED <<spend_lists, has_output, idx, all_data, resolved>>
    /\ UNCHANGED notMQ

\* The second inner try: the SPEND_BASED/MARKET_BASED request.  When it raises,
\* the assignment to data does not happen and the handler only prints.
Alternate ==
    /\ pc_mq = "alternate"
    /\ \E out \in ApiOutcomes(MaxServed - served) :
        /\ data' = IF out.kind = "resp" THEN out ELSE data
        /\ served' = served + (IF out.kind = "resp" THEN Len(out.items) ELSE 0)
    /\ combo_reqs' = Append(combo_reqs, AlternateRequest(CurrentCombination.group_by))
    /\ pc_mq' = "collect"
    /\ UNCHANGED <<spend_lists, has_output, idx, all_data, primary_out, surfaced,
                   contributed, attempted, resolved>>
    /\ UNCHANGED notMQ

\* `if data.items:` ... `else:` and the outer except handler.  data.items on
\* None raises AttributeError; save_to_csv re-raises what open or the writer
\* raise; either lands in the outer handler, which prints and continues.
Collect ==
    /\ pc_mq = "collect"
    /\ resolved' = resolved \o (IF data.kind = "resp" THEN data.items ELSE <<>>)
    /\ IF CollectBranch(data) = "raise"
       THEN /\ surfaced' = "AttributeError"
            /\ contributed' = <<>>
            /\ all_data' = all_data
       ELSE IF CollectBranch(data) = "records"
       THEN \E saved \in (IF has_output THEN BOOLEAN ELSE {TRUE}) :
               IF saved
               THEN /\ surfaced' = "None"
                    /\ contributed' = data.items
                    /\ all_data' = all_data \o data.items
               ELSE /\ surfaced' = "SaveError"
                    /\ contributed' = <<>>
                    /\ all_data' = all_data
       ELSE /\ surfaced' = "None"
            /\ contributed' = <<>>
            /\ all_data' = all_data
    /\ pc_mq' = "next"
    /\ UNCHANGED <<spend_lists, has_output, idx, data, combo_reqs, primary_out,
                   attempted, served>>
    /\ UNCHANGED notMQ

\* The for statement takes the next combination, or ends.
NextCombination ==
    /\ pc_mq = "next"
    /\ idx' = AfterCombination(idx, surfaced)
    /\ pc_mq' = IF idx' > Len(query_combinations(spend_lists)) THEN "combine" ELSE "primary"
    /\ UNCHANGED <<spend_lists, has_output, data, all_data, combo_reqs, primary_out,
                   surfaced, contributed, attempted, resolved, served>>
    /\ UNCHANGED notMQ

\* `if all_data:` data = CombinedResult(all_data) `else:` return
Combine ==
    /\ pc_mq = "combine"
    /\ IF all_data # <<>>
       THEN data' = Response(all_data) /\ pc_mq' = "done"
       ELSE data' = data /\ pc_mq' = "exit"
    /\ UNCHANGED <<spend_lists, has_output, idx, all_data, combo_reqs, primary_out,
                   surfaced, contributed, attempted, resolved, served>>
    /\ UNCHANGED notMQ

NextMQ == Primary \/ Alternate \/ Collect \/ NextCombination \/ Combine

\* ------------------------------------------- validate_group_by_fields
power_based_supported ==
    <<"service", "compartmentName", "compartmentId", "region",
      "tenantId", "tenantName", "subscriptionId">>

spend_based_supported ==
    <<"service", "compartmentName", "compartmentId", "region",
      "tenantId", "tenantName", "subscriptionId", "platform",
      "resourceId", "resourceName", "skuName", "skuPartNumber">>

\* `field in supported_fields`
InList(field, list) == \E i \in 1..Len(list) : list[i] = field

\* `[field for field in group_by if field in supported_fields]`
RECURSIVE KeepSupported(_, _)
KeepSupported(fields, supported) ==
    IF fields = <<>> THEN <<>>
    ELSE (IF InList(Head(fields), supported) THEN <<Head(fields)>> ELSE <<>>)
         \o KeepSupported(Tail(fields), supported)

\* `[field for field in group_by if field not in supported_fields]`
RECURSIVE KeepUnsupported(_, _)
KeepUnsupported(fields, supported) ==
    IF fields = <<>> THEN <<>>
    ELSE (IF InList(Head(fields), supported) THEN <<>> ELSE <<Head(fields)>>)
         \o KeepUnsupported(Tail(fields), supported)

\* The if/else on calculation_method: anything but POWER_BASED takes the
\* spend-based list.
SupportedFields(method) ==
    IF method = "POWER_BASED" THEN power_based_supported ELSE spend_based_supported

\* `if not valid_fields: valid_fields = ['service']`
EnsureOne(valid) == IF valid = <<>> THEN <<"service">> ELSE valid

LimitFields_mut(valid) == IF Len(valid) > 5 THEN SubSeq(valid, 1, 5) ELSE valid

\* `if len(valid_fields) > 4: valid_fields = valid_fields[:4]`
LimitFields(valid) == IF Len(valid) > 4 THEN SubSeq(valid, 1, 4) ELSE valid

validate_group_by_fields(fields, method) ==
    LimitFields(EnsureOne(KeepSupported(fields, SupportedFields(method))))

\* The print calls of validate_group_by_fields, in order.  Only the
\* POWER_BASED branch computes and prints the unsupported fields.
validate_warnings(fields, method) ==
    LET unsupported == KeepUnsupported(fields, SupportedFields(method))
        valid       == KeepSupported(fields, SupportedFields(method))
    IN  (IF method = "POWER_BASED" /\ unsupported # <<>>
         THEN <<[warning |-> "unsupported", fields |-> unsupported]>> ELSE <<>>)
        \o (IF valid = <<>> THEN <<[warning |-> "default"]>> ELSE <<>>)
        \o (IF Len(EnsureOne(valid)) > 4 THEN <<[warning |-> "too_many"]>> ELSE <<>>)

\* Field names a caller passes: supported by both methods, by SPEND_BASED
\* only, and by neither.
RequestedFields ==
    {"service", "region", "compartmentName", "tenantId", "subscriptionId",
     "platform", "foo"}

Methods == {"POWER_BASED", "SPEND_BASED"}

InitVal ==
    /\ pc_val = "call"
    /\ group_by \in SeqsUpTo(RequestedFields, MaxFields)
    /\ calculation_method \in Methods
    /\ valid_fields = <<>>
    /\ val_warnings = <<>>

IdleVal ==
    /\ pc_val = "idle"
    /\ group_by = <<>>
    /\ calculation_method = "None"
    /\ valid_fields = <<>>
    /\ val_warnings = <<>>

Validate ==
    /\ pc_val = "call"
    /\ valid_fields' = validate_group_by_fields(group_by, calculation_method)
    /\ val_warnings' = validate_warnings(group_by, calculation_method)
    /\ pc_val' = "returned"
    /\ UNCHANGED <<group_by, calculation_method>>
    /\ UNCHANGED notVal

NextVal == Validate

\* ------------------------------------- _parse_and_validate_datetime
\* A date string is modelled by the text of its fields: the digits of the
\* year as written, month, day, whether it has a 'T' part (kind "iso") with
\* its hour and zone designator, or is date-only (kind "date").
RECURSIVE Digits(_)
Digits(n) == IF n < 10 THEN <<n>> ELSE Digits(n \div 10) \o <<n % 10>>

RECURSIVE Value(_)
Value(digits) ==
    IF digits = <<>> THEN 0
    ELSE 10 * Value(SubSeq(digits, 1, Len(digits) - 1)) + digits[Len(digits)]

Pad4(n) == LET d == Digits(n) IN [i \in 1..(4 - Len(d)) |-> 0] \o d

ValueError == [kind |-> "ValueError"]

\* Days of the month as the parsers check them (February of a common year).
DaysIn(month) ==
    IF month \in {4, 6, 9, 11} THEN 30 ELSE IF month = 2 THEN 28 ELSE 31

\* datetime.fromisoformat(date_str.replace('Z', '+00:00')) when 'T' is in the
\* string, datetime.strptime(date_str, "%Y-%m-%d") otherwise.  Both want a
\* year of exactly four digits, at least 1, and a day the month has.
ParseDate(s) ==
    IF \/ Len(s.ydigits) # 4
       \/ Value(s.ydigits) < 1
       \/ s.month \notin 1..12
       \/ s.day \notin 1..DaysIn(s.month)
    THEN ValueError
    ELSE [kind |-> "datetime", year |-> Value(s.ydigits), month |-> s.month,
          day |-> s.day, hour |-> s.hour,
          tz |-> IF s.zone = "Z" THEN "+00:00" ELSE s.zone]

\* dt.replace(day=1, hour=0, minute=0, second=0, microsecond=0)
FirstOfMonth(dt) == [dt EXCEPT !.day = 1, !.hour = 0]

\* `%Y` of strftime: the C library decides whether a year below 1000 is
\* zero-padded (glibc does not pad).
YearText(year, pads) == IF pads THEN Pad4(year) ELSE Digits(year)

\* dt.strftime("%Y-%m-%dT00:00:00Z")
Strftime(dt, pads) ==
    [kind |-> "iso", ydigits |-> YearText(dt.year, pads), month |-> dt.month,
     day |-> dt.day, hour |-> 0, zone |-> "Z"]

parse_and_validate_datetime(s, pads) ==
    LET dt == ParseDate(s)
    IN  IF dt = ValueError THEN ValueError ELSE Strftime(FirstOfMonth(dt), pads)

\* Years written in the input, three of them with leading zeros, and one
\* three-digit year no parser takes.
YearTexts == {Pad4(1), Pad4(999), Pad4(1000), Pad4(2024), <<9, 9, 9>>}

DateStrings ==
    {[kind |-> "date", ydigits |-> y, month |-> m, day |-> d, hour |-> 0,
      zone |-> "naive"] : y \in YearTexts, m \in 1..12, d \in {1, 15, 31}}
    \cup
    {[kind |-> "iso", ydigits |-> y, month |-> m, day |-> d, hour |-> h,
      zone |-> z] : y \in YearTexts, m \in 1..12, d \in {1, 15, 31},
                    h \in {0, 10}, z \in {"naive", "Z", "+05:00"}}

InitDate ==
    /\ pc_date = "call"
    /\ date_str \in DateStrings
    /\ strftime_pads \in BOOLEAN
    /\ norm1 = "None"
    /\ norm2 = "None"

IdleDate ==
    /\ pc_date = "idle"
    /\ date_str = "None"
    /\ strftime_pads = FALSE
    /\ norm1 = "None"
    /\ norm2 = "None"

\* _parse_and_validate_datetime(date_str)
Normalize ==
    /\ pc_date = "call"
    /\ norm1' = parse_and_validate_datetime(date_str, strftime_pads)
    /\ pc_date' = IF norm1' = ValueError THEN "raised" ELSE "once"
    /\ UNCHANGED <<date_str, strftime_pads, norm2>>
    /\ UNCHANGED notDate

\* _parse_and_validate_datetime applied to its own result
NormalizeAgain ==
    /\ pc_date = "once"
    /\ norm2' = parse_and_validate_datetime(norm1, strftime_pads)
    /\ pc_date' = "twice"
    /\ UNCHANGED <<date_str, strftime_pads, norm1>>
    /\ UNCHANGED notDate

NextDate == Normalize \/ NormalizeAgain

\* ------------------------------------- calculate_first_day_date_range
PreviousMonth_mut(year, month) ==
    IF month = 1 THEN [year |-> year, month |-> 12]
    ELSE [year |-> year, month |-> month - 1]

\* The 'last_month' branch: December of the year before when the month is 1.
PreviousMonth(year, month) ==
    IF month = 1 THEN [year |-> year - 1, month |-> 12]
    ELSE [year |-> year, month |-> month - 1]

\* The 'last_3_months' branch: `month - 3`, and `if month <= 0: month += 12;
\* year -= 1`.
ThreeMonthsBack(year, month) ==
    LET m == month - 3
    IN  IF m <= 0 THEN [year |-> year - 1, month |-> m + 12]
        ELSE [year |-> year, month |-> m]

\* strftime("%Y-%m-%d") of a first-of-month datetime, as its fields.
DateOnly(year, month, day) == [year |-> year, month |-> month, day |-> day]

calculate_first_day_date_range(now, period) ==
    LET first == IF period = "last_month" THEN PreviousMonth(now.year, now.month)
                 ELSE ThreeMonthsBack(now.year, now.month)
    IN  [start |-> DateOnly(first.year, first.month, 1),
         end   |-> DateOnly(now.year, now.month, 1)]

\* datetime.now() values tried.
Todays ==
    {[year |-> y, month |-> m, day |-> d] :
        y \in 2023..2025, m \in 1..12, d \in {1, 15, 28}}

InitPer ==
    /\ pc_per = "call"
    /\ today \in Todays
    /\ period_type \in {"last_month", "last_3_months"}
    /\ date_range = "None"

IdlePer ==
    /\ pc_per = "idle"
    /\ today = "None"
    /\ period_type = "None"
    /\ date_range = "None"

ResolvePeriod ==
    /\ pc_per = "call"
    /\ date_range' = calculate_first_day_date_range(today, period_type)
    /\ pc_per' = "returned"
    /\ UNCHANGED <<today, period_type>>
    /\ UNCHANGED notPer

NextPer == ResolvePeriod

\* ------------------------------------- main: argument handling and dispatch
\* Longest --group-by list tried.
MaxGroupBy == 5

spend_based_only_fields ==
    {"platform", "resourceId", "resourceName", "skuName", "skuPartNumber"}

\* Choices of --group-by tried: five POWER_BASED fields and a spend-only one.
GroupByChoices ==
    {"service", "region", "compartmentName", "compartmentId", "tenantId",
     "platform"}

\* --group-by lists tried (nargs='+'): one field or more, no field twice.
GroupByLists ==
    {s \in SeqsUpTo(GroupByChoices, MaxGroupBy) :
        /\ s # <<>>
        /\ \A i, j \in 1..Len(s) : i # j => s[i] # s[j]}

Contains(fields, f) == \E i \in 1..Len(fields) : fields[i] = f

\* The POWER_BASED filter of main: spend-only fields are removed (and
\* [service] used when nothing is left); the list is not shortened otherwise.
FilterPowerBased(a) ==
    LET invalid_fields ==
            SelectSeq(a.group_by, LAMBDA f : f \in spend_based_only_fields)
        kept ==
            SelectSeq(a.group_by, LAMBDA f : f \notin spend_based_only_fields)
    IN  IF a.calculation_method = "POWER_BASED" /\ invalid_fields # <<>>
        THEN [a EXCEPT !.group_by = IF kept = <<>> THEN <<"service">> ELSE kept]
        ELSE a

\* --by-compartments: compartmentName is put in front when it is missing.
ByCompartments(a) ==
    IF a.by_compartments /\ a.group_by = <<>>
    THEN [a EXCEPT !.group_by = <<"compartmentName", "service">>]
    ELSE IF a.by_compartments /\ ~Contains(a.group_by, "compartmentName")
    THEN [a EXCEPT !.group_by = <<"compartmentName">> \o a.group_by]
    ELSE a

FullDataset(a) ==
    IF a.full_dataset
    THEN [a EXCEPT !.group_by = <<"service", "compartmentName", "region">>]
    ELSE a

FullDatasetSpendBased(a) ==
    IF a.full_dataset_spend_based
    THEN [a EXCEPT !.calculation_method = "SPEND_BASED",
                   !.group_by = <<"service", "compartmentName", "resourceId",
                                  "skuName">>]
    ELSE a

NoGrouping(a) ==
    IF a.no_grouping
    THEN [a EXCEPT !.group_by = <<"service", "compartmentName", "region">>]
    ELSE a

\* Lines 823-898, in the order main runs them.
PreparedArgs(a) ==
    NoGrouping(FullDatasetSpendBased(FullDataset(ByCompartments(
        FilterPowerBased(a)))))

\* The branch main takes to fetch the data.
DispatchMode(a) ==
    IF a.multi_query_dataset THEN "multi_query"
    ELSE IF a.full_dataset \/ a.no_grouping THEN "paginated"
    ELSE "regular"

Namespaces ==
    [group_by : GroupByLists, calculation_method : {"POWER_BASED", "SPEND_BASED"},
     by_compartments : BOOLEAN, full_dataset : BOOLEAN,
     full_dataset_spend_based : BOOLEAN, no_grouping : BOOLEAN,
     multi_query_dataset : BOOLEAN]

InitCli ==
    /\ pc_cli = "parsed"
    /\ argv \in Namespaces
    /\ args = argv
    /\ sent_group_by = <<>>
    /\ retrieval = "None"

IdleCli ==
    /\ pc_cli = "idle"
    /\ argv = "None"
    /\ args = "None"
    /\ sent_group_by = <<>>
    /\ retrieval = "None"

\* main, from parse_args to the computed date range
PrepareArgs ==
    /\ pc_cli = "parsed"
    /\ args' = PreparedArgs(args)
    /\ pc_cli' = "prepared"
    /\ UNCHANGED <<argv, sent_group_by, retrieval>>
    /\ UNCHANGED notCli

\* --multi-query-dataset: one primary request per predefined combination
DispatchMultiQuery ==
    /\ pc_cli = "prepared"
    /\ DispatchMode(args) = "multi_query"
    /\ retrieval' = "multi_query"
    /\ sent_group_by' =
        LET qc == query_combinations(args.full_dataset_spend_based)
        IN  [i \in 1..Len(qc) |-> qc[i].group_by]
    /\ pc_cli' = "dispatched"
    /\ UNCHANGED <<argv, args>>
    /\ UNCHANGED notCli

\* --full-dataset / --no-grouping: get_full_dataset_paginated(group_by=args.group_by)
DispatchPaginated ==
    /\ pc_cli = "prepared"
    /\ DispatchMode(args) = "paginated"
    /\ retrieval' = "get_full_dataset_paginated"
    /\ sent_group_by' = <<args.group_by>>
    /\ pc_cli' = "dispatched"
    /\ UNCHANGED <<argv, args>>
    /\ UNCHANGED notCli

\* every other run: get_carbon_emissions(group_by=args.group_by)
DispatchRegular ==
    /\ pc_cli = "prepared"
    /\ DispatchMode(args) = "regular"
    /\ retrieval' = "get_carbon_emissions"
    /\ sent_group_by' = <<args.group_by>>
    /\ pc_cli' = "dispatched"
    /\ UNCHANGED <<argv, args>>
    /\ UNCHANGED notCli

NextCli ==
    PrepareArgs \/ DispatchMultiQuery \/ DispatchPaginated \/ DispatchRegular

\* ------------------------------------- get_carbon_emissions: limit
\* The largest page size the API takes.
MaxLimit == 500

\* How far below 0 and above MaxLimit the limits tried go.
LimitMargin == 3

ClampLimit_mut(l) ==
    IF l # {} /\ (\E n \in l : n > MaxLimit) THEN {MaxLimit}
    ELSE IF l # {} /\ (\E n \in l : n < 0) THEN {}
    ELSE l

\* `if limit is not None and limit > 500: limit = 500
\*  elif limit is not None and limit <= 0: limit = None`
ClampLimit(l) ==
    IF l # {} /\ (\E n \in l : n > MaxLimit) THEN {MaxLimit}
    ELSE IF l # {} /\ (\E n \in l : n <= 0) THEN {}
    ELSE l

Limits == {{}} \cup {{n} : n \in (0 - LimitMargin)..(MaxLimit + LimitMargin)}

InitGce ==
    /\ pc_gce = "call"
    /\ limit_arg \in Limits
    /\ sent_limit = {}

IdleGce ==
    /\ pc_gce = "idle"
    /\ limit_arg = {}
    /\ sent_limit = {}

\* request_usage_carbon_emissions(request_details, limit=limit)
RequestUsage ==
    /\ pc_gce = "call"
    /\ sent_limit' = ClampLimit(limit_arg)
    /\ pc_gce' = "sent"
    /\ UNCHANGED limit_arg
    /\ UNCHANGED notGce

NextGce == RequestUsage

\* ------------------------------------- print_summary
\* Longest dataset summarised.
MaxSummaryItems == 3

\* `float(item.computed_carbon_emission or 0)`: None counts as 0.
EmissionOf(item) ==
    IF item.computed_carbon_emission = {} THEN 0
    ELSE CHOOSE n \in item.computed_carbon_emission : TRUE

\* The service key: 'Unknown' when the attribute is None.
ServiceKey(item) == IF item.service = "None" THEN "Unknown" ELSE item.service

\* `compartment_name or compartment_id or "Root/Tenancy"`
CompartmentKey(item) ==
    IF item.compartment_name # "None" THEN item.compartment_name
    ELSE IF item.compartment_id # "None" THEN item.compartment_id
    ELSE "Root/Tenancy"

DictAdd_mut(dict, k, v) ==
    IF \E i \in 1..Len(dict) : dict[i].key = k
    THEN [i \in 1..Len(dict) |->
            IF dict[i].key = k THEN [key |-> k, value |-> v] ELSE dict[i]]
    ELSE Append(dict, [key |-> k, value |-> v])

\* `if key in d: d[key] += emissions else: d[key] = emissions` on a dict,
\* which keeps its keys in the order they were first inserted.
DictAdd(dict, k, v) ==
    IF \E i \in 1..Len(dict) : dict[i].key = k
    THEN [i \in 1..Len(dict) |->
            IF dict[i].key = k THEN [key |-> k, value |-> dict[i].value + v]
            ELSE dict[i]]
    ELSE Append(dict, [key |-> k, value |-> v])

\* The dict after the loop over the (key, emissions) pairs of the items.
RECURSIVE Accumulate(_)
Accumulate(pairs) ==
    IF pairs = <<>> THEN <<>>
    ELSE LET n == Len(pairs)
         IN  DictAdd(Accumulate(SubSeq(pairs, 1, n - 1)), pairs[n].key,
                     pairs[n].value)

RECURSIVE TotalEmissions(_)
TotalEmissions(items) ==
    IF items = <<>> THEN 0
    ELSE TotalEmissions(SubSeq(items, 1, Len(items) - 1))
         + EmissionOf(items[Len(items)])

InsertDescending_mut(sorted, e) ==
    LET smaller == {i \in 1..Len(sorted) : sorted[i].value <= e.value}
        at == IF smaller = {} THEN Len(sorted) + 1
              ELSE CHOOSE i \in smaller : \A j \in smaller : i <= j
    IN  SubSeq(sorted, 1, at - 1) \o <<e>> \o SubSeq(sorted, at, Len(sorted))

\* One step of the stable descending sort: the entry goes before the first
\* entry with a smaller value, so after every entry with an equal one.
InsertDescending(sorted, e) ==
    LET smaller == {i \in 1..Len(sorted) : sorted[i].value < e.value}
        at == IF smaller = {} THEN Len(sorted) + 1
              ELSE CHOOSE i \in smaller : \A j \in smaller : i <= j
    IN  SubSeq(sorted, 1, at - 1) \o <<e>> \o SubSeq(sorted, at, Len(sorted))

\* sorted(d.items(), key=lambda x: x[1], reverse=True)
RECURSIVE SortedDescending(_)
SortedDescending(entries) ==
    IF entries = <<>> THEN <<>>
    ELSE LET n == Len(entries)
         IN  InsertDescending(SortedDescending(SubSeq(entries, 1, n - 1)),
                              entries[n])

\* `(emissions / total_emissions * 100) if total_emissions > 0 else 0`, as a
\* fraction.
Percentage(emissions, total) ==
    IF total > 0 THEN [num |-> emissions * 100, den |-> total]
    ELSE [num |-> 0, den |-> 1]

Breakdown(dict, total) ==
    LET sorted == SortedDescending(dict)
    IN  [i \in 1..Len(sorted) |->
            [key |-> sorted[i].key, emissions |-> sorted[i].value,
             percentage |-> Percentage(sorted[i].value, total)]]

print_summary(items, by_compartments) ==
    LET total == TotalEmissions(items)
        service_emissions ==
            Accumulate([i \in 1..Len(items) |->
                [key |-> ServiceKey(items[i]), value |-> EmissionOf(items[i])]])
        compartment_emissions ==
            IF by_compartments
            THEN Accumulate([i \in 1..Len(items) |->
                    [key |-> CompartmentKey(items[i]),
                     value |-> EmissionOf(items[i])]])
            ELSE <<>>
    IN  [total |-> total,
         compartments |-> Breakdown(compartment_emissions, total),
         services |-> Breakdown(service_emissions, total)]

\* Records summarised: two services or none, an emission of 1 or None, a
\* compartment with a name, with an id only, or with neither.
SummaryItems ==
    {[service |-> s, computed_carbon_emission |-> e,
      compartment_name |-> c[1], compartment_id |-> c[2]] :
        s \in {"A", "B", "None"}, e \in {{}, {1}},
        c \in {<<"c1", "ocid1">>, <<"None", "ocid1">>, <<"None", "None">>}}

InitSum ==
    /\ pc_sum = "call"
    /\ sum_items \in SeqsUpTo(SummaryItems, MaxSummaryItems)
    /\ group_by_compartments \in BOOLEAN
    /\ summary = "None"

IdleSum ==
    /\ pc_sum = "idle"
    /\ sum_items = <<>>
    /\ group_by_compartments = FALSE
    /\ summary = "None"

\* print_summary on a dataset with records
PrintSummary ==
    /\ pc_sum = "call"
    /\ sum_items # <<>>
    /\ summary' = print_summary(sum_items, group_by_compartments)
    /\ pc_sum' = "printed"
    /\ UNCHANGED <<sum_items, group_by_compartments>>
    /\ UNCHANGED notSum

\* `if not data.items: print(...); return`
PrintNoData ==
    /\ pc_sum = "call"
    /\ sum_items = <<>>
    /\ pc_sum' = "empty"
    /\ UNCHANGED <<sum_items, group_by_compartments, summary>>
    /\ UNCHANGED notSum

NextSum == PrintSummary \/ PrintNoData

\* ------------------------------------- save_to_csv
\* Longest dataset saved.
MaxCsvItems == 2

base_fieldnames ==
    <<"compartment_name", "service", "resource_name", "resource_id", "region",
      "ad", "sku_part_number", "sku_name", "platform", "time_usage_started",
      "time_usage_ended", "computed_carbon_emission",
      "emission_calculation_method", "emission_type", "subscription_id", "tags">>

OptionalFields == {"tenant_id", "tenant_name", "compartment_id", "compartment_path"}

\* list.insert(index, x) for a 0-based index >= 0: x goes before the element
\* at that index, or at the end when the list is shorter.
ListInsert(list, index, x) ==
    LET at == Min(index, Len(list))
    IN  SubSeq(list, 1, at) \o <<x>> \o SubSeq(list, at + 1, Len(list))

\* `if getattr(sample_item, f, None): fieldnames.insert(index, f)`
InsertIfPresent(list, sample_item, f, index) ==
    IF f \in sample_item THEN ListInsert(list, index, f) ELSE list

\* The header for a first record with the given optional fields.
Fieldnames(sample_item) ==
    InsertIfPresent(
        InsertIfPresent(
            InsertIfPresent(
                InsertIfPresent(base_fieldnames, sample_item, "tenant_id", 0),
                sample_item, "tenant_name", 1),
            sample_item, "compartment_id", 2),
        sample_item, "compartment_path", 3)

InitCsv ==
    /\ pc_csv = "call"
    /\ csv_items \in SeqsUpTo(SUBSET OptionalFields, MaxCsvItems)
    /\ fieldnames = <<>>
    /\ rows_written = 0

IdleCsv ==
    /\ pc_csv = "idle"
    /\ csv_items = <<>>
    /\ fieldnames = <<>>
    /\ rows_written = 0

\* `if not data.items: print("No data to save."); return`
SaveNothing ==
    /\ pc_csv = "call"
    /\ csv_items = <<>>
    /\ pc_csv' = "nothing"
    /\ UNCHANGED <<csv_items, fieldnames, rows_written>>
    /\ UNCHANGED notCsv

\* header and one row per record written
SaveRows ==
    /\ pc_csv = "call"
    /\ csv_items # <<>>
    /\ fieldnames' = Fieldnames(csv_items[1])
    /\ rows_written' = Len(csv_items)
    /\ pc_csv' = "saved"
    /\ UNCHANGED csv_items
    /\ UNCHANGED notCsv

\* open() fails: the handler prints the error and raises it again
SaveFails ==
    /\ pc_csv = "call"
    /\ csv_items # <<>>
    /\ pc_csv' = "raised"
    /\ UNCHANGED <<csv_items, fieldnames, rows_written>>
    /\ UNCHANGED notCsv

NextCsv == SaveNothing \/ SaveRows \/ SaveFails

\* ------------------------------------- main: dates, then the first query
\* args.end_date when --end-date is not given, and a local not yet bound.
NoDate == [kind |-> "None"]

\* No request sent yet.
NoRange == [kind |-> "None"]

TypeError == [kind |-> "TypeError"]

\* datetime.strptime(s, "%Y-%m-%d") in main: None is not a string, and a
\* string with a 'T' part leaves unconverted data.
MainStrptime(s) ==
    IF s = NoDate THEN TypeError
    ELSE IF s.kind # "date" THEN ValueError
    ELSE ParseDate(s)

\* dt.replace(day=1).strftime('%Y-%m-%d')
MainStrftime(dt, pads) ==
    [kind |-> "date", ydigits |-> YearText(dt.year, pads), month |-> dt.month,
     day |-> 1, hour |-> 0, zone |-> "naive"]

\* `if start_dt.day != 1: start_date_str = start_dt.replace(day=1).strftime(..)`
MainFirstOfMonth(s, dt, pads) == IF dt.day # 1 THEN MainStrftime(dt, pads) ELSE s

\* The try block of main, lines 912-928: the start date is parsed first, and
\* a ValueError leads to sys.exit(1); a TypeError is not caught.
MainValidation(s, e) ==
    LET start_dt == MainStrptime(s)
        end_dt == MainStrptime(e)
    IN  IF start_dt = TypeError THEN "crashed"
        ELSE IF start_dt = ValueError THEN "exited"
        ELSE IF end_dt = TypeError THEN "crashed"
        ELSE IF end_dt = ValueError THEN "exited"
        ELSE "validated"

ClientCalled_mut(start_datetime, end_datetime) == TRUE

\* get_carbon_emissions reaches request_usage_carbon_emissions (line 128)
\* only when both _parse_and_validate_datetime calls (lines 90-91) returned.
ClientCalled(start_datetime, end_datetime) ==
    start_datetime # ValueError /\ end_datetime # ValueError

\* Dates given to a run: years 999 (padded and not), 2023 and 2024.
RunYearTexts == {Pad4(999), Pad4(2023), Pad4(2024), <<9, 9, 9>>}

RunDates ==
    {[kind |-> "date", ydigits |-> y, month |-> m, day |-> d, hour |-> 0,
      zone |-> "naive"] : y \in RunYearTexts, m \in {1, 2, 12}, d \in {1, 15, 31}}
    \cup
    {[kind |-> "iso", ydigits |-> y, month |-> m, day |-> d, hour |-> 0,
      zone |-> "Z"] : y \in RunYearTexts, m \in {1, 2, 12}, d \in {1, 15, 31}}

InitRun ==
    /\ entry \in {"main", "get_carbon_emissions"}
    /\ pc_run = entry
    /\ list_compartments \in (IF entry = "main" THEN BOOLEAN ELSE {FALSE})
    /\ libc_pads \in BOOLEAN
    /\ start_date \in RunDates
    /\ end_date \in RunDates \cup (IF entry = "main" THEN {NoDate} ELSE {})
    /\ start_date_str = NoDate
    /\ end_date_str = NoDate
    /\ retriever = (entry = "get_carbon_emissions")
    /\ client_calls = 0
    /\ time_range = NoRange

IdleRun ==
    /\ pc_run = "idle"
    /\ entry = "idle"
    /\ list_compartments = FALSE
    /\ libc_pads = FALSE
    /\ start_date = NoDate
    /\ end_date = NoDate
    /\ start_date_str = NoDate
    /\ end_date_str = NoDate
    /\ retriever = FALSE
    /\ client_calls = 0
    /\ time_range = NoRange

\* `if args.list_compartments:` the retriever is created, the compartments
\* are printed and main returns; the dates are not looked at.
ListCompartments ==
    /\ pc_run = "main"
    /\ list_compartments
    /\ retriever' = TRUE
    /\ pc_run' = "listed"
    /\ UNCHANGED <<entry, list_compartments, libc_pads, start_date, end_date,
                   start_date_str, end_date_str, client_calls, time_range>>
    /\ UNCHANGED notRun

\* main, lines 908-928
ValidateDates ==
    /\ pc_run = "main"
    /\ ~list_compartments
    /\ pc_run' = MainValidation(start_date, end_date)
    /\ IF pc_run' = "validated"
       THEN /\ start_date_str' =
                 MainFirstOfMonth(start_date, MainStrptime(start_date), libc_pads)
            /\ end_date_str' =
                 MainFirstOfMonth(end_date, MainStrptime(end_date), libc_pads)
       ELSE UNCHANGED <<start_date_str, end_date_str>>
    /\ UNCHANGED <<entry, list_compartments, libc_pads, start_date, end_date,
                   retriever, client_calls, time_range>>
    /\ UNCHANGED notRun

\* retriever = OCICarbonEmissionsRetriever(...)
CreateRetriever ==
    /\ pc_run = "validated"
    /\ retriever' = TRUE
    /\ pc_run' = "get_carbon_emissions"
    /\ UNCHANGED <<entry, list_compartments, libc_pads, start_date, end_date,
                   start_date_str, end_date_str, client_calls, time_range>>
    /\ UNCHANGED notRun

\* get_carbon_emissions, lines 90-131: the first query of a run, whichever
\* retrieval mode makes it.
GetCarbonEmissions ==
    /\ pc_run = "get_carbon_emissions"
    /\ LET s == IF entry = "main" THEN start_date_str ELSE start_date
           e == IF entry = "main" THEN end_date_str ELSE end_date
           start_datetime == parse_and_validate_datetime(s, libc_pads)
           end_datetime == parse_and_validate_datetime(e, libc_pads)
           parsed == start_datetime # ValueError /\ end_datetime # ValueError
       IN  /\ client_calls' =
                IF ClientCalled(start_datetime, end_datetime)
                THEN client_calls + 1 ELSE client_calls
           /\ time_range' =
                IF parsed
                THEN [kind |-> "range", time_usage_started |-> start_datetime,
                      time_usage_ended |-> end_datetime]
                ELSE time_range
           /\ pc_run' = IF parsed THEN "sent" ELSE "raised"
    /\ UNCHANGED <<entry, list_compartments, libc_pads, start_date, end_date,
                   start_date_str, end_date_str, retriever>>
    /\ UNCHANGED notRun

NextRun == ListCompartments \/ ValidateDates \/ CreateRetriever \/ GetCarbonEmissions

\* ------------------------------------------------------ specifications
SpecPagInit == InitPag /\ IdleMQ /\ IdleVal /\ IdleDate /\ IdlePer /\ IdleCli /\ IdleGce /\ IdleSum /\ IdleCsv /\ IdleRun

SpecMQInit == IdlePag /\ InitMQ /\ IdleVal /\ IdleDate /\ IdlePer /\ IdleCli /\ IdleGce /\ IdleSum /\ IdleCsv /\ IdleRun

SpecMQ == SpecMQInit /\ [][NextMQ]_vars

SpecValInit == IdlePag /\ IdleMQ /\ InitVal /\ IdleDate /\ IdlePer /\ IdleCli /\ IdleGce /\ IdleSum /\ IdleCsv /\ IdleRun

SpecVal == SpecValInit /\ [][NextVal]_vars

SpecPag == SpecPagInit /\ [][NextPag]_vars

\* The loop is one sequential thread: every iteration it can take, it takes.
FairSpecPag == SpecPag /\ WF_vars(NextPag)

SpecDateInit == IdlePag /\ IdleMQ /\ IdleVal /\ InitDate /\ IdlePer /\ IdleCli /\ IdleGce /\ IdleSum /\ IdleCsv /\ IdleRun

SpecDate == SpecDateInit /\ [][NextDate]_vars

SpecPerInit == IdlePag /\ IdleMQ /\ IdleVal /\ IdleDate /\ InitPer /\ IdleCli /\ IdleGce /\ IdleSum /\ IdleCsv /\ IdleRun

SpecPer == SpecPerInit /\ [][NextPer]_vars

SpecCliInit == IdlePag /\ IdleMQ /\ IdleVal /\ IdleDate /\ IdlePer /\ InitCli /\ IdleGce /\ IdleSum /\ IdleCsv /\ IdleRun

SpecCli == SpecCliInit /\ [][NextCli]_vars

SpecGceInit == IdlePag /\ IdleMQ /\ IdleVal /\ IdleDate /\ IdlePer /\ IdleCli /\ InitGce /\ IdleSum /\ IdleCsv /\ IdleRun

SpecGce == SpecGceInit /\ [][NextGce]_vars

SpecSumInit == IdlePag /\ IdleMQ /\ IdleVal /\ IdleDate /\ IdlePer /\ IdleCli /\ IdleGce /\ InitSum /\ IdleCsv /\ IdleRun

SpecSum == SpecSumInit /\ [][NextSum]_vars

SpecCsvInit == IdlePag /\ IdleMQ /\ IdleVal /\ IdleDate /\ IdlePer /\ IdleCli /\ IdleGce /\ IdleSum /\ InitCsv /\ IdleRun

SpecCsv == SpecCsvInit /\ [][NextCsv]_vars

SpecRunInit == IdlePag /\ IdleMQ /\ IdleVal /\ IdleDate /\ IdlePer /\ IdleCli /\ IdleGce /\ IdleSum /\ IdleCsv /\ InitRun

SpecRun == SpecRunInit /\ [][NextRun]_vars

\* ------------------------------------------------ claims: pagination
\* C1: when the client raises after records have been accumulated, the call
\* returns a Dataset of exactly those records; when it raises with nothing
\* accumulated, the client's error propagates.
C1_PartialOnError ==
    stop_reason = "error" =>
        IF all_items # <<>>
        THEN pc_pag = "returned" /\ result = CombinedResult(all_items)
        ELSE pc_pag = "raised" /\ raised = "ApiError"

\* C2: without max_records, when the last page delivered carries no
\* continuation token, the returned Dataset holds exactly the delivered
\* records in arrival order and has no continuation token.
C2_FullConcatenation ==
    (max_records = {} /\ stop_reason = "no_more_pages") =>
        /\ pc_pag = "returned"
        /\ result.items = delivered
        /\ result.opc_next_page = "None"

C2_Witness ==
    /\ max_records = {} /\ stop_reason = "no_more_pages" /\ pc_pag = "returned"
    /\ page_count = 3
    /\ result.items = <<"a", "b", "a">>

\* C3: with max_records = N > 0, once the delivered pages hold at least N
\* records the call has returned exactly the first N delivered records, and
\* no request is issued from then on.
C3_Reached == \E n \in max_records : n > 0 /\ Len(delivered) >= n

C3_ExactlyMaxRecords ==
    /\ [](C3_Reached =>
            /\ pc_pag = "returned"
            /\ \A n \in max_records : result.items = SubSeq(delivered, 1, n))
    /\ [][C3_Reached => requests' = requests]_vars

C3_Witness ==
    /\ max_records = {2} /\ pc_pag = "returned" /\ page_count = 2
    /\ delivered = <<"a", "b", "a">>
    /\ result.items = <<"a", "b">>

\* C4: the call always terminates and never issues more than 1000 requests,
\* also when every page carries a continuation token.
C4_Terminates ==
    /\ [](requests <= 1000)
    /\ <>(pc_pag \in {"returned", "raised"})

C4_Witness ==
    /\ max_records = {} /\ requests = 1000 /\ delivered = <<>>
    /\ stop_reason = "page_limit" /\ page_token = "tok" /\ pc_pag = "returned"

\* C17: when the process is interrupted during the paginated retrieval after
\* records have been accumulated, the call returns a Dataset of those records
\* instead of raising.
C17_InterruptKeepsPartial ==
    (stop_reason = "interrupt" /\ all_items # <<>>) =>
        /\ pc_pag = "returned"
        /\ result = CombinedResult(all_items)

\* ------------------------------------------------ claims: multi-query
\* The combination idx has gone through both attempts.
FallbackDone == pc_mq \in {"collect", "next"}

IsPrimary(r) ==
    r.emission_type = "LOCATION_BASED" /\ r.calculation_method = "POWER_BASED"

IsAlternate(r) ==
    r.emission_type = "MARKET_BASED" /\ r.calculation_method = "SPEND_BASED"

\* Requests of one combination: the primary first, then at most one alternate.
RequestShape ==
    /\ Len(combo_reqs) <= 2
    /\ FallbackDone =>
        /\ Len(combo_reqs) >= 1
        /\ IsPrimary(combo_reqs[1])
        /\ Len(combo_reqs) = 2 => IsAlternate(combo_reqs[2])

AllZero(items) == \A i \in 1..Len(items) : items[i] = 0

SomeNonZero(items) == \E i \in 1..Len(items) : items[i] # 0

SomePositive(items) == \E i \in 1..Len(items) : items[i] > 0

\* C5 as stated: per combination the primary is issued first and once; the
\* alternate is issued once when the primary raises, returns no items or only
\* zero emissions, and not at all when the primary returns a record with a
\* non-zero emission; never more than two requests.
C5_AsClaimed ==
    /\ RequestShape
    /\ FallbackDone =>
        /\ (primary_out.kind = "raise" \/ AllZero(primary_out.items))
              => Len(combo_reqs) = 2
        /\ (primary_out.kind = "resp" /\ SomeNonZero(primary_out.items))
              => Len(combo_reqs) = 1

\* C5 amended: as above, with "no record has an emission greater than zero" in
\* place of "all exactly zero", and "a record with an emission greater than
\* zero" in place of "non-zero".
C5_FallbackOnce ==
    /\ RequestShape
    /\ FallbackDone =>
        /\ (primary_out.kind = "raise" \/ ~SomePositive(primary_out.items))
              => Len(combo_reqs) = 2
        /\ (primary_out.kind = "resp" /\ SomePositive(primary_out.items))
              => Len(combo_reqs) = 1

C5_Witness ==
    /\ pc_mq = "next" /\ idx = 2
    /\ primary_out = Response(<<0, 0>>)
    /\ Len(combo_reqs) = 2
    /\ data = Response(<<1>>)

\* The claim's "no data": no items, or every emission exactly zero.
PrimaryNoData == primary_out.kind = "resp" /\ AllZero(primary_out.items)

AlternateReturned == Len(combo_reqs) = 2 /\ data.kind = "resp"

\* C6 as stated: primary without data, alternate without data (no items or
\* all zero): the combination adds no record and is not an error.
C6_AsClaimed ==
    (pc_mq = "next" /\ PrimaryNoData /\ AlternateReturned /\ AllZero(data.items))
        => (contributed = <<>> /\ surfaced = "None")

\* C6 amended: primary without data, alternate returning an empty item list:
\* the combination adds no record and is not an error.
C6_EmptyBoth ==
    (pc_mq = "next" /\ PrimaryNoData /\ AlternateReturned /\ data.items = <<>>)
        => (contributed = <<>> /\ surfaced = "None")

C6_Witness ==
    /\ pc_mq = "next" /\ idx = 2
    /\ primary_out = Response(<<0>>)
    /\ AlternateReturned /\ data.items = <<>>
    /\ all_data = <<>> /\ surfaced = "None"

PrimaryRaised == primary_out.kind = "raise"

AlternateRaised == Len(combo_reqs) = 2 /\ data.kind = "None"

\* C7: a raising primary is followed by the alternate; when both raise, the
\* error surfaced for the combination is the primary's.
C7_PrimaryErrorSurfaces ==
    pc_mq = "next" =>
        /\ PrimaryRaised => Len(combo_reqs) = 2
        /\ (PrimaryRaised /\ AlternateRaised) => surfaced = "PrimaryError"

IsPrefix(s, t) == Len(s) <= Len(t) /\ SubSeq(t, 1, Len(s)) = s

Suffixes(spend) == [i \in 1..4 |-> query_combinations(spend)[i].suffix]

\* C8: the 4 combinations are attempted in list order whatever earlier ones
\* did: a processed combination is always followed by the next one, the loop
\* ends only after all 4, and the combined list only ever grows at its end.
C8_AllCombinationsAttempted ==
    /\ [](IsPrefix(attempted, Suffixes(spend_lists)))
    /\ [](pc_mq \in {"combine", "done", "exit"} => attempted = Suffixes(spend_lists))
    /\ [][pc_mq = "next" /\ idx < 4 => pc_mq' = "primary" /\ idx' = idx + 1]_vars
    /\ [][IsPrefix(all_data, all_data')]_vars

C8_Witness ==
    /\ pc_mq = "primary" /\ idx = 3
    /\ PrimaryRaised /\ AlternateRaised /\ surfaced = "AttributeError"
    /\ attempted = SubSeq(Suffixes(spend_lists), 1, 2)
    /\ all_data = <<1, 0>>

\* C9: the combined dataset is the concatenation, in combination order, of
\* the record sequences the fallback steps resolved to.
C9_Concatenation ==
    /\ pc_mq \in {"next", "combine", "done", "exit"} => all_data = resolved
    /\ pc_mq = "done" => data.items = resolved

\* ------------------------------------------------ claims: validation
PowerCapability ==
    {"service", "compartmentName", "compartmentId", "region", "tenantId",
     "tenantName", "subscriptionId"}

SpendCapability ==
    PowerCapability \cup {"platform", "resourceId", "resourceName", "skuName",
                          "skuPartNumber"}

Capability(method) ==
    IF method = "POWER_BASED" THEN PowerCapability ELSE SpendCapability

\* C10: the result is the requested fields of the method's capability set,
\* in their original order, cut to the first 4, or [service] when there is
\* none; so it is never empty, never longer than 4, and holds only supported
\* fields.
C10_ValidateResult ==
    pc_val = "returned" =>
        LET Supported(f) == f \in Capability(calculation_method)
            kept == SelectSeq(group_by, Supported)
        IN  /\ valid_fields = IF kept = <<>> THEN <<"service">>
                              ELSE SubSeq(kept, 1, Min(4, Len(kept)))
            /\ valid_fields # <<>>
            /\ Len(valid_fields) <= 4
            /\ \A i \in 1..Len(valid_fields) : Supported(valid_fields[i])

C10_Witness ==
    /\ pc_val = "returned"
    /\ calculation_method = "SPEND_BASED"
    /\ group_by = <<"platform", "service", "region", "tenantId", "subscriptionId">>
    /\ valid_fields = <<"platform", "service", "region", "tenantId">>

\* ------------------------------------------------ claims: dates
\* C11: for every accepted date string the result has the year and month of
\* the input, day 1 and time 00:00:00Z, and normalising the result again gives
\* the same string.
C11_NormalizeIdempotent ==
    /\ pc_date \in {"once", "twice"} =>
        /\ Value(norm1.ydigits) = Value(date_str.ydigits)
        /\ norm1.month = date_str.month
        /\ norm1.day = 1 /\ norm1.hour = 0 /\ norm1.zone = "Z"
    /\ pc_date = "twice" => norm2 = norm1

MonthIndex(d) == 12 * d.year + d.month

\* C12: end is the first day of the current month, start the first day of
\* the month 1 (last_month) or 3 (last_3_months) calendar months earlier, the
\* year going down when January is crossed; start is strictly before end.
C12_PeriodRange ==
    pc_per = "returned" =>
        LET back == IF period_type = "last_month" THEN 1 ELSE 3
            s == date_range.start
            e == date_range.end
        IN  /\ e = [year |-> today.year, month |-> today.month, day |-> 1]
            /\ s.day = 1 /\ s.month \in 1..12
            /\ MonthIndex(s) = MonthIndex(e) - back
            /\ MonthIndex(s) < MonthIndex(e)

C12_Witness ==
    /\ pc_per = "returned" /\ period_type = "last_3_months"
    /\ today = [year |-> 2024, month |-> 1, day |-> 15]
    /\ date_range = [start |-> [year |-> 2023, month |-> 10, day |-> 1],
                     end   |-> [year |-> 2024, month |-> 1, day |-> 1]]

\* ------------------------------------------------ claims: command line
\* C13: every request main asks for, in any mode, carries at least 1 and at
\* most 4 grouping dimensions, whatever list was passed to --group-by.
C13_AtMostFourDimensions ==
    pc_cli = "dispatched" =>
        \A i \in 1..Len(sent_group_by) :
            Len(sent_group_by[i]) >= 1 /\ Len(sent_group_by[i]) <= 4

\* ------------------------------------------------ claims: limit
\* C14: the limit sent to the client is absent or an integer in 1..500:
\* an absent limit stays absent, a limit above 500 is sent as 500, a limit of
\* 0 or less is sent as absent, a limit in 1..500 is sent unchanged.
C14_LimitSent ==
    pc_gce = "sent" =>
        /\ sent_limit = {} \/ (\E n \in sent_limit : n >= 1 /\ n <= 500)
        /\ limit_arg = {} => sent_limit = {}
        /\ \A n \in limit_arg :
            /\ n > 500 => sent_limit = {500}
            /\ n <= 0 => sent_limit = {}
            /\ (n >= 1 /\ n <= 500) => sent_limit = {n}

C14_Witness ==
    /\ pc_gce = "sent"
    /\ limit_arg = {501}
    /\ sent_limit = {500}

\* ------------------------------------------------ claims: summary
\* Sum of the emission values (None as 0) of the records at the positions in I.
RECURSIVE SumAt(_)
SumAt(I) ==
    IF I = {} THEN 0
    ELSE LET i == CHOOSE j \in I : TRUE
             e == sum_items[i].computed_carbon_emission
         IN  (IF e = {} THEN 0 ELSE CHOOSE n \in e : TRUE) + SumAt(I \ {i})

ServiceOfRecord(i) ==
    IF sum_items[i].service = "None" THEN "Unknown" ELSE sum_items[i].service

RecordsOfService(k) == {i \in 1..Len(sum_items) : ServiceOfRecord(i) = k}

\* C15: the total is the sum of all records' emissions (None as 0); there is
\* one entry per service occurring in the dataset, its total the sum over the
\* records of that service and its percentage total/total*100 (0 when the
\* total is not positive); every record is in exactly one entry.
C15_SummaryTotals ==
    pc_sum = "printed" =>
        LET out == summary.services
            all == 1..Len(sum_items)
        IN  /\ summary.total = SumAt(all)
            /\ {out[i].key : i \in 1..Len(out)} = {ServiceOfRecord(i) : i \in all}
            /\ \A i, j \in 1..Len(out) : out[i].key = out[j].key => i = j
            /\ \A i \in 1..Len(out) :
                /\ out[i].emissions = SumAt(RecordsOfService(out[i].key))
                /\ IF SumAt(all) > 0
                   THEN out[i].percentage.num * SumAt(all)
                        = out[i].emissions * 100 * out[i].percentage.den
                   ELSE out[i].percentage.num = 0
            /\ \A r \in all :
                Cardinality({i \in 1..Len(out) : out[i].key = ServiceOfRecord(r)}) = 1

\* Two records of service A, one of service B without emission value.
C15_Witness ==
    /\ pc_sum = "printed"
    /\ Len(sum_items) = 3
    /\ sum_items[1].service = "A" /\ sum_items[1].computed_carbon_emission = {1}
    /\ sum_items[2].service = "B" /\ sum_items[2].computed_carbon_emission = {}
    /\ sum_items[3].service = "A" /\ sum_items[3].computed_carbon_emission = {1}
    /\ summary.total = 2
    /\ Len(summary.services) = 2
    /\ summary.services[1].key = "A" /\ summary.services[1].emissions = 2
    /\ summary.services[1].percentage = [num |-> 200, den |-> 2]
    /\ summary.services[2].key = "B" /\ summary.services[2].emissions = 0

CompartmentOfRecord(i) ==
    IF sum_items[i].compartment_name # "None" THEN sum_items[i].compartment_name
    ELSE IF sum_items[i].compartment_id # "None" THEN sum_items[i].compartment_id
    ELSE "Root/Tenancy"

\* Position of the first record of the dataset with service (compartment) k.
FirstOfService(k) ==
    CHOOSE i \in RecordsOfService(k) : \A j \in RecordsOfService(k) : i <= j

FirstOfCompartment(k) ==
    LET I == {i \in 1..Len(sum_items) : CompartmentOfRecord(i) = k}
    IN  CHOOSE i \in I : \A j \in I : i <= j

\* C20: service entries, and compartment entries when they are printed, are
\* listed by descending total; entries with equal totals are listed in the
\* order in which their keys first occur in the dataset.
C20_DescendingEncounterOrder ==
    pc_sum = "printed" =>
        /\ LET out == summary.services
           IN  \A i, j \in 1..Len(out) : i < j =>
                \/ out[i].emissions > out[j].emissions
                \/ /\ out[i].emissions = out[j].emissions
                   /\ FirstOfService(out[i].key) < FirstOfService(out[j].key)
        /\ LET out == summary.compartments
           IN  /\ group_by_compartments => Len(out) >= 1
               /\ \A i, j \in 1..Len(out) : i < j =>
                    \/ out[i].emissions > out[j].emissions
                    \/ /\ out[i].emissions = out[j].emissions
                       /\ FirstOfCompartment(out[i].key)
                            < FirstOfCompartment(out[j].key)

\* Services B and A, and compartments c1 and ocid1, tie at 1; B and c1 occur
\* first.
C20_Witness ==
    /\ pc_sum = "printed" /\ group_by_compartments
    /\ Len(sum_items) = 3
    /\ sum_items[1].service = "B" /\ sum_items[1].computed_carbon_emission = {1}
    /\ sum_items[2].service = "A" /\ sum_items[2].computed_carbon_emission = {1}
    /\ sum_items[3].service = "B" /\ sum_items[3].computed_carbon_emission = {}
    /\ [i \in 1..2 |-> summary.services[i].key] = <<"B", "A">>
    /\ summary.services[1].emissions = summary.services[2].emissions
    /\ [i \in 1..Len(summary.compartments) |-> summary.compartments[i].key]
        = <<"c1", "ocid1">>
    /\ summary.compartments[1].emissions = summary.compartments[2].emissions

\* ------------------------------------------------ claims: CSV
ColumnOrder ==
    <<"tenant_id", "tenant_name", "compartment_id", "compartment_path",
      "compartment_name", "service", "resource_name", "resource_id", "region",
      "ad", "sku_part_number", "sku_name", "platform", "time_usage_started",
      "time_usage_ended", "computed_carbon_emission",
      "emission_calculation_method", "emission_type", "subscription_id", "tags">>

ColumnPosition(f) == CHOOSE p \in 1..Len(ColumnOrder) : ColumnOrder[p] = f

\* C16: the header is a subsequence of the fixed column order, and holds
\* exactly those of the four optional columns that have data on the first
\* record, before compartment_name and in their relative order.
C16_HeaderOrder ==
    pc_csv = "saved" =>
        /\ \A i, j \in 1..Len(fieldnames) : i < j =>
            ColumnPosition(fieldnames[i]) < ColumnPosition(fieldnames[j])
        /\ {fieldnames[i] : i \in 1..Len(fieldnames)} \cap OptionalFields
            = csv_items[1]

\* ------------------------------------------------ claims: capability sets
\* C18: in multi-query mode the grouping fields of every primary
\* (LOCATION_BASED/POWER_BASED) request belong to the POWER_BASED capability
\* set, with the power-based and with the spend-based combinations.
C18_PrimaryFieldsPowerBased ==
    \A i \in 1..Len(combo_reqs) :
        IsPrimary(combo_reqs[i]) =>
            \A j \in 1..Len(combo_reqs[i].group_by) :
                combo_reqs[i].group_by[j] \in PowerCapability

\* C19: when validate_group_by_fields drops a requested field that is outside
\* the capability set of the method, it prints a warning naming the removed
\* fields, and it returns; for POWER_BASED and for SPEND_BASED.
C19_DropReported ==
    LET Dropped(f) == f \notin Capability(calculation_method)
    IN  (pc_val = "returned" /\ SelectSeq(group_by, Dropped) # <<>>) =>
            \E i \in 1..Len(val_warnings) :
                /\ val_warnings[i].warning = "unsupported"
                /\ val_warnings[i].fields = SelectSeq(group_by, Dropped)

\* ------------------------------------------------ claims: dates of a run
\* C21: no request is issued to the emissions API client when date
\* validation fails: a date get_carbon_emissions cannot parse raises before
\* the client is called, and a date main cannot parse ends the run before
\* the retriever is created or any query is sent.
C21_NoRequestOnInvalidDate ==
    /\ pc_run = "raised" => client_calls = 0
    /\ pc_run \in {"exited", "crashed"} => ~retriever /\ client_calls = 0
    /\ client_calls > 0 =>
         /\ ParseDate(start_date) # ValueError
         /\ ParseDate(end_date) # ValueError

C21_Witness ==
    /\ pc_run = "raised"
    /\ entry = "get_carbon_emissions"
    /\ ParseDate(start_date) # ValueError
    /\ ParseDate(end_date) = ValueError

\* Calendar order of two parsed dates, and of two request time stamps.
DateBefore(a, b) ==
    \/ a.year < b.year
    \/ a.year = b.year /\ a.month < b.month
    \/ a.year = b.year /\ a.month = b.month /\ a.day < b.day

StampBefore(a, b) ==
    DateBefore([year |-> Value(a.ydigits), month |-> a.month, day |-> a.day],
               [year |-> Value(b.ydigits), month |-> b.month, day |-> b.day])

\* C23: for every pair of explicit dates with start strictly before end,
\* the time range sent to the API after first-of-month coercion still has
\* start strictly before end.
C23_RangeNotEmpty ==
    (/\ pc_run = "sent"
     /\ DateBefore(ParseDate(start_date), ParseDate(end_date)))
    => StampBefore(time_range.time_usage_started, time_range.time_usage_ended)

\* ------------------------------------------------ claims: page requests
\* C22: during paginated retrieval every page request after the first
\* carries the continuation token returned by the immediately preceding
\* page, so it differs from the first request, which carries none.
C22_RequestCarriesToken ==
    requests >= 2 => sent_page = preceding_page /\ sent_page # "None"

\* ------------------------------------------------ claims: sub-result files
\* C24: in multi-query mode the records retrieved for a combination are in
\* the combined dataset even when writing that combination's own file
\* fails.
C24_WriteFailureKeepsRecords ==
    (pc_mq = "next" /\ surfaced = "SaveError") =>
        /\ contributed = data.items
        /\ Len(all_data) >= Len(data.items)
        /\ SubSeq(all_data, Len(all_data) - Len(data.items) + 1, Len(all_data))
             = data.items

\* ------------------------------------------------ claims: full-dataset modes
\* C25: every full-dataset mode fetches through the pagination loop: with
\* --full-dataset-spend-based (and no --multi-query-dataset) the data is
\* fetched with get_full_dataset_paginated, as for --full-dataset and
\* --no-grouping.
C25_FullDatasetPaginated ==
    (/\ pc_cli = "dispatched"
     /\ ~argv.multi_query_dataset
     /\ argv.full_dataset \/ argv.full_dataset_spend_based \/ argv.no_grouping)
    => retrieval = "get_full_dataset_paginated"

====
